---- MODULE Spec2Model ----
(***************************************************************************)
(* A model of api/cleanads.js: the CleanAds proxy handler, its date        *)
(* normaliser and its record transformer.                                  *)
(*                                                                         *)
(* JavaScript strings are sequences of one-character strings, so that      *)
(* split, padStart, parseInt, parseFloat, Number and the record_id regexp  *)
(* are computed character by character.  A JavaScript value is a record    *)
(* [t, s, n]: t is the type tag, s the characters of a string, n the value *)
(* of a number in tenths (Scale) or the truth value of a boolean.          *)
(* Time values are [nan, d, ms]: whole days since 1970-01-01 and the       *)
(* milliseconds within the day, or NaN (an Invalid Date).  The process     *)
(* runs in UTC, as the Vercel Node.js runtime does.                        *)
(***************************************************************************)
EXTENDS Integers, Sequences, FiniteSets, TLC

(***************************************************************************)
(* Characters and strings                                                  *)
(***************************************************************************)
DigitChars == {"0", "1", "2", "3", "4", "5", "6", "7", "8", "9"}

LowerChars ==
  {"a", "b", "c", "d", "e", "f", "g", "h", "i", "j", "k", "l", "m",
   "n", "o", "p", "q", "r", "s", "t", "u", "v", "w", "x", "y", "z"}

UpperChars ==
  {"A", "B", "C", "D", "E", "F", "G", "H", "I", "J", "K", "L", "M",
   "N", "O", "P", "Q", "R", "S", "T", "U", "V", "W", "X", "Y", "Z"}

WhiteChars == {" "}

\* The characters the regexp /[^a-zA-Z0-9_-]/ leaves alone.
IdChars == LowerChars \cup UpperChars \cup DigitChars \cup {"_", "-"}

\* The characters of the model in code-unit order (the order of < on strings).
CharOrder ==
  <<" ", "-", ".", "/", "0", "1", "2", "3", "4", "5", "6", "7", "8", "9", ":",
    "A", "B", "C", "D", "E", "F", "G", "H", "I", "J", "K", "L", "M",
    "N", "O", "P", "Q", "R", "S", "T", "U", "V", "W", "X", "Y", "Z",
    "[", "]", "_",
    "a", "b", "c", "d", "e", "f", "g", "h", "i", "j", "k", "l", "m",
    "n", "o", "p", "q", "r", "s", "t", "u", "v", "w", "x", "y", "z">>

CharCode(c) == CHOOSE i \in 1..Len(CharOrder) : CharOrder[i] = c

DigitVal(c) == CharCode(c) - CharCode("0")

DigitChar(n) == CharOrder[CharCode("0") + n]

RECURSIVE DecVal(_)
\* The value of a string of decimal digits.
DecVal(s) ==
  IF s = <<>> THEN 0
  ELSE DecVal(SubSeq(s, 1, Len(s) - 1)) * 10 + DigitVal(s[Len(s)])

RECURSIVE DecStr(_)
\* The decimal digits of a natural number.
DecStr(n) ==
  IF n < 10 THEN <<DigitChar(n)>>
  ELSE Append(DecStr(n \div 10), DigitChar(n % 10))

\* The number of leading characters of s that belong to set.
PrefixIn(s, set) ==
  CHOOSE k \in 0..Len(s) :
    /\ \A i \in 1..k : s[i] \in set
    /\ (k = Len(s) \/ s[k + 1] \notin set)

Drop(s, k) == SubSeq(s, k + 1, Len(s))

Take(s, k) == SubSeq(s, 1, k)

StartsWith(s, p) == Len(s) >= Len(p) /\ Take(s, Len(p)) = p

\* String.prototype.trim on the model's white space.
TrimLeft(s) == Drop(s, PrefixIn(s, WhiteChars))

RECURSIVE TrimRight(_)
TrimRight(s) ==
  IF s # <<>> /\ s[Len(s)] \in WhiteChars THEN TrimRight(Take(s, Len(s) - 1))
  ELSE s

RECURSIVE Split(_, _)
\* String.prototype.split(sep) for a one-character separator.
Split(s, sep) ==
  IF \A i \in 1..Len(s) : s[i] # sep THEN <<s>>
  ELSE LET i == CHOOSE j \in 1..Len(s) :
                  s[j] = sep /\ \A k \in 1..(j - 1) : s[k] # sep
       IN <<Take(s, i - 1)>> \o Split(Drop(s, i), sep)

RECURSIVE padStart(_, _, _)
\* String.prototype.padStart(width, fill) for a one-character fill.
padStart(s, width, fill) ==
  IF Len(s) >= width THEN s ELSE padStart(<<fill>> \o s, width, fill)

(***************************************************************************)
(* JavaScript values                                                       *)
(***************************************************************************)
\* Numbers are kept in tenths: 12.9 is 129.
Scale == 10

Undef == [t |-> "undef", s |-> <<>>, n |-> 0]

Null == [t |-> "null", s |-> <<>>, n |-> 0]

Str(chars) == [t |-> "str", s |-> chars, n |-> 0]

Num(tenths) == [t |-> "num", s |-> <<>>, n |-> tenths]

IntNum(i) == Num(i * Scale)

NaN == [t |-> "nan", s |-> <<>>, n |-> 0]

Infinity(sign) == [t |-> "inf", s |-> <<>>, n |-> sign]

Bool(b) == [t |-> "bool", s |-> <<>>, n |-> IF b THEN 1 ELSE 0]

Obj == [t |-> "obj", s |-> <<>>, n |-> 0]

isNaN(v) == v.t = "nan"

\* ToBoolean: what `!x`, `x || y` and `if (x)` test.
Truthy(v) ==
  CASE v.t \in {"undef", "null", "nan"} -> FALSE
    [] v.t = "str" -> v.s # <<>>
    [] v.t = "num" -> v.n # 0
    [] v.t = "bool" -> v.n = 1
    [] OTHER -> TRUE

\* x || y
Or(x, y) == IF Truthy(x) THEN x ELSE y

S_NaN == <<"N", "a", "N">>

S_Infinity == <<"I", "n", "f", "i", "n", "i", "t", "y">>

S_null == <<"n", "u", "l", "l">>

S_undefined == <<"u", "n", "d", "e", "f", "i", "n", "e", "d">>

S_true == <<"t", "r", "u", "e">>

S_false == <<"f", "a", "l", "s", "e">>

S_object == <<"[", "o", "b", "j", "e", "c", "t", " ", "O", "b", "j", "e", "c", "t", "]">>

\* Number.prototype.toString for a number kept in tenths.
NumStr(n) ==
  LET a == IF n < 0 THEN -n ELSE n
      body == IF a % Scale = 0 THEN DecStr(a \div Scale)
              ELSE DecStr(a \div Scale) \o <<".">> \o DecStr(a % Scale)
  IN IF n < 0 THEN <<"-">> \o body ELSE body

\* ToString: what a template literal and parseInt/parseFloat apply first.
JSToString(v) ==
  CASE v.t = "str" -> v.s
    [] v.t = "num" -> NumStr(v.n)
    [] v.t = "nan" -> S_NaN
    [] v.t = "inf" -> IF v.n < 0 THEN <<"-">> \o S_Infinity ELSE S_Infinity
    [] v.t = "null" -> S_null
    [] v.t = "undef" -> S_undefined
    [] v.t = "bool" -> IF v.n = 1 THEN S_true ELSE S_false
    [] OTHER -> S_object

\* The sign prefix of a numeric string: <<sign, rest>>.
SignOf(s) ==
  IF s # <<>> /\ s[1] = "-" THEN <<-1, Drop(s, 1)>>
  ELSE IF s # <<>> /\ s[1] = "+" THEN <<1, Drop(s, 1)>>
  ELSE <<1, s>>

ParseIntDigits(sign, r, k) ==
  IF k = 0 THEN NaN ELSE IntNum(sign * DecVal(Take(r, k)))

ParseIntSigned(sg) == ParseIntDigits(sg[1], sg[2], PrefixIn(sg[2], DigitChars))

\* parseInt(value): ToString, leading white space, a sign, then the longest
\* run of decimal digits; NaN when there is none.  (No string of the model
\* has a 0x prefix, which parseInt would read as hexadecimal.)
parseInt(value) == ParseIntSigned(SignOf(TrimLeft(JSToString(value))))

\* The number of fraction digits of a text that starts after the integer part.
FracDigits(rest) ==
  IF rest # <<>> /\ rest[1] = "." THEN PrefixIn(Drop(rest, 1), DigitChars) ELSE 0

\* The value of the literal that starts r: k integer digits, f fraction
\* digits.  The fraction is kept to one digit (Scale).
DecimalValue(sign, r, k, f) ==
  Num(sign * (DecVal(Take(r, k)) * Scale + (IF f = 0 THEN 0 ELSE DigitVal(r[k + 2]))))

ParseFloatAt(sign, r, k, f) ==
  IF StartsWith(r, S_Infinity) THEN Infinity(sign)
  ELSE IF k = 0 /\ f = 0 THEN NaN
  ELSE DecimalValue(sign, r, k, f)

ParseFloatDigits(sign, r, k) == ParseFloatAt(sign, r, k, FracDigits(Drop(r, k)))

ParseFloatSigned(sg) ==
  ParseFloatDigits(sg[1], sg[2], PrefixIn(sg[2], DigitChars))

\* parseFloat(value): ToString, leading white space, a sign, then Infinity or
\* the longest prefix digits[.digits]; NaN when there is none.  (No string of
\* the model has an exponent.)
parseFloat(value) == ParseFloatSigned(SignOf(TrimLeft(JSToString(value))))

\* The length of the literal with k integer and f fraction digits; "5." is one.
LiteralLen(r, k, f) ==
  IF f > 0 THEN k + 1 + f
  ELSE IF k > 0 /\ Len(r) > k /\ r[k + 1] = "." THEN k + 1
  ELSE k

StringToNumberAt(sign, r, k, f) ==
  IF r = S_Infinity THEN Infinity(sign)
  ELSE IF (k = 0 /\ f = 0) \/ Len(r) # LiteralLen(r, k, f) THEN NaN
  ELSE DecimalValue(sign, r, k, f)

StringToNumberDigits(sign, r, k) ==
  StringToNumberAt(sign, r, k, FracDigits(Drop(r, k)))

StringToNumberSigned(sg) ==
  StringToNumberDigits(sg[1], sg[2], PrefixIn(sg[2], DigitChars))

\* ToNumber of a string: trimmed; the empty string is 0, a whole decimal
\* literal is its value, anything else is NaN.
StringToNumber(trimmed) ==
  IF trimmed = <<>> THEN IntNum(0) ELSE StringToNumberSigned(SignOf(trimmed))

\* ToNumber, as `month - 1` and the Date constructor apply it.
ToNumber(v) ==
  CASE v.t = "str" -> StringToNumber(TrimRight(TrimLeft(v.s)))
    [] v.t = "undef" -> NaN
    [] v.t = "null" -> IntNum(0)
    [] v.t = "bool" -> IntNum(v.n)
    [] v.t = "obj" -> NaN
    [] OTHER -> v

\* a < b and a > b on numbers: false when either is NaN.
NumLt(a, b) ==
  /\ a.t # "nan" /\ b.t # "nan"
  /\ CASE a.t = "inf" -> a.n < 0 /\ ~(b.t = "inf" /\ b.n < 0)
       [] b.t = "inf" -> b.n > 0
       [] OTHER -> a.n < b.n

NumGt(a, b) == NumLt(b, a)

\* The elements a destructuring [x, y, z] = parts binds: undefined past the end.
Nth(parts, i) == IF i <= Len(parts) THEN Str(parts[i]) ELSE Undef

(***************************************************************************)
(* normalizeDate                                                           *)
(***************************************************************************)
\* Line 205: `${year}-${month.padStart(2, '0')}-${day.padStart(2, '0')}`
FormatDate(month, day, year) ==
  Str(year.s \o <<"-">> \o padStart(month.s, 2, "0") \o <<"-">>
        \o padStart(day.s, 2, "0"))

\* Lines 201-205: a comparison with NaN is false, so a month or day that
\* parseInt cannot read passes the range test.
ValidateDate(month, day, year, monthNum, dayNum) ==
  IF \/ NumLt(monthNum, IntNum(1)) \/ NumGt(monthNum, IntNum(12))
     \/ NumLt(dayNum, IntNum(1)) \/ NumGt(dayNum, IntNum(31))
  THEN Null
  ELSE FormatDate(month, day, year)

\* Lines 194-199.
NormalizeParts(month, day, year) ==
  IF ~Truthy(month) \/ ~Truthy(day) \/ ~Truthy(year) THEN Null
  ELSE ValidateDate(month, day, year, parseInt(month), parseInt(day))

\* Line 193: const [month, day, year] = dateStr.split('/')
NormalizeSplit(parts) == NormalizeParts(Nth(parts, 1), Nth(parts, 2), Nth(parts, 3))

\* normalizeDate(dateStr).  A truthy dateStr that is no string has no split
\* method: the TypeError is caught and null returned.
normalizeDate(dateStr) ==
  IF ~Truthy(dateStr) THEN Null
  ELSE IF dateStr.t # "str" THEN Null
  ELSE NormalizeSplit(Split(dateStr.s, "/"))

(***************************************************************************)
(* Dates                                                                   *)
(***************************************************************************)
MsPerDay == 1000 * 60 * 60 * 24

InvalidDate == [nan |-> TRUE, d |-> 0, ms |-> 0]

TimeValue(day, msec) == [nan |-> FALSE, d |-> day, ms |-> msec]

IsLeapYear(y) == (y % 4 = 0 /\ y % 100 # 0) \/ y % 400 = 0

\* Days from 1970-01-01 to the first day of year y.
DayFromYear(y) ==
  365 * (y - 1970) + ((y - 1969) \div 4) - ((y - 1901) \div 100)
    + ((y - 1601) \div 400)

DaysInMonth(y, m0) ==
  IF m0 = 1 THEN (IF IsLeapYear(y) THEN 29 ELSE 28)
  ELSE IF m0 \in {3, 5, 8, 10} THEN 30 ELSE 31

RECURSIVE DaysBeforeMonth(_, _)
\* Days from the first day of year y to the first day of its month m0 (0..11).
DaysBeforeMonth(y, m0) ==
  IF m0 = 0 THEN 0 ELSE DaysBeforeMonth(y, m0 - 1) + DaysInMonth(y, m0 - 1)

DayOfMonthStart(y, m0) == DayFromYear(y) + DaysBeforeMonth(y, m0)

\* MakeDay: the day number of (year, month, date); a month outside 0..11
\* carries into the year and a date outside the month rolls over.
MakeDay(year, month, date) ==
  DayOfMonthStart(year + (month \div 12), month % 12) + date - 1

\* ToIntegerOrInfinity of a finite number kept in tenths: toward zero.
Trunc(n) == IF n >= 0 THEN n \div Scale ELSE -((-n) \div Scale)

\* The Date constructor reads a year 0..99 as 1900 + year.
FullYear(yi) == IF 0 <= yi /\ yi <= 99 THEN 1900 + yi ELSE yi

DateFromNumbers(y, m, dt) ==
  IF y.t # "num" \/ m.t # "num" \/ dt.t # "num" THEN InvalidDate
  ELSE TimeValue(MakeDay(FullYear(Trunc(y.n)), Trunc(m.n), Trunc(dt.n)), 0)

\* new Date(year, monthIndex, day): each argument goes through ToNumber; a NaN
\* or infinite argument gives an Invalid Date.  The result is local midnight,
\* which is UTC midnight here.
DateFromParts(year, monthIndex, day) ==
  DateFromNumbers(ToNumber(year), ToNumber(monthIndex), ToNumber(day))

Decrement(x) == IF x.t = "num" THEN Num(x.n - Scale) ELSE x

\* x - 1, for `month - 1`.
MinusOne(v) == Decrement(ToNumber(v))

\* Whether s has the shape YYYY-MM-DD.
IsIsoDateShape(s) ==
  /\ Len(s) = 10
  /\ \A i \in {1, 2, 3, 4, 6, 7, 9, 10} : s[i] \in DigitChars
  /\ s[5] = "-" /\ s[8] = "-"

IsoDate(y, m, dd) ==
  IF m \in 1..12 /\ dd \in 1..31 THEN TimeValue(MakeDay(y, m - 1, dd), 0)
  ELSE InvalidDate

\* new Date(value) with one argument.  A string YYYY-MM-DD is UTC midnight of
\* that day: V8 takes a day up to 31 in any month and lets it roll over.  Any
\* other string of the model falls to V8's legacy parser, which rejects a
\* word that follows a number and a string with no number: Invalid Date.
\* null is time value 0.
DateParse(v) ==
  CASE v.t = "str" ->
         IF IsIsoDateShape(v.s)
         THEN IsoDate(DecVal(SubSeq(v.s, 1, 4)), DecVal(SubSeq(v.s, 6, 7)),
                      DecVal(SubSeq(v.s, 9, 10)))
         ELSE InvalidDate
    [] v.t = "null" -> TimeValue(0, 0)
    [] OTHER -> InvalidDate

\* setHours(0, 0, 0, 0) and setHours(23, 59, 59, 999); an Invalid Date stays one.
StartOfDay(t) == IF t.nan THEN t ELSE TimeValue(t.d, 0)

EndOfDay(t) == IF t.nan THEN t ELSE TimeValue(t.d, MsPerDay - 1)

\* a <= b on time values: false when either is NaN.
TimeLeq(a, b) ==
  ~a.nan /\ ~b.nan /\ (a.d < b.d \/ (a.d = b.d /\ a.ms <= b.ms))

\* Math.ceil((hi - lo) / MsPerDay) for lo <= hi.
CeilSpan(hi, lo) ==
  IF hi.ms > lo.ms THEN hi.d - lo.d + 1 ELSE hi.d - lo.d

\* Math.ceil(Math.abs(end - start) / MsPerDay), for valid time values.
CeilDiffDays(end, start) ==
  IF TimeLeq(start, end) THEN CeilSpan(end, start) ELSE CeilSpan(start, end)

(***************************************************************************)
(* The record transformer                                                  *)
(***************************************************************************)
S_Unknown == <<"U", "n", "k", "n", "o", "w", "n">>

S_EndOfDayZ == <<"T", "2", "3", ":", "5", "9", ":", "5", "9", "Z">>

\* isNaN(parsed) ? 0 : parsed
ZeroIfNaN(parsed) == IF isNaN(parsed) THEN IntNum(0) ELSE parsed

\* parseIntSafe without the isNaN test.
parseIntUnguarded(value) == parseInt(value)

parseIntSafe(value) == ZeroIfNaN(parseInt(value))

parseFloatSafe(value) == ZeroIfNaN(parseFloat(value))

\* The replacement without the g flag: only the first match is replaced.
ReplaceFirstUnsafe(s) ==
  [i \in 1..Len(s) |->
     IF s[i] \notin IdChars /\ \A j \in 1..(i - 1) : s[j] \in IdChars THEN "_" ELSE s[i]]

\* String.prototype.replace(/[^a-zA-Z0-9_-]/g, '_')
ReplaceUnsafe(s) ==
  [i \in 1..Len(s) |-> IF s[i] \in IdChars THEN s[i] ELSE "_"]

\* Line 165.
RecordId(dateOrShort, campaignName, adsetName) ==
  Str(ReplaceUnsafe(JSToString(dateOrShort) \o <<"_">> \o JSToString(campaignName)
                      \o <<"_">> \o JSToString(adsetName)))

\* Line 168.
CursorTimestamp(normalizedDate, shortDate) ==
  IF Truthy(normalizedDate) THEN Str(JSToString(normalizedDate) \o S_EndOfDayZ)
  ELSE Str(JSToString(shortDate) \o S_EndOfDayZ)

\* Lines 145-169: the object the callback returns.
OutputRecord(record, normalizedDate, shortDate, campaignName, adsetName) ==
  [ShortDate |-> shortDate,
   CampaignName |-> campaignName,
   AdsetName |-> adsetName,
   statImpressions |-> parseIntSafe(record.statImpressions),
   statClicks |-> parseIntSafe(record.statClicks),
   statCost |-> parseFloatSafe(record.statCost),
   statConversions |-> parseIntSafe(record.statConversions),
   normalized_date |-> normalizedDate,
   impressions |-> parseIntSafe(record.statImpressions),
   clicks |-> parseIntSafe(record.statClicks),
   cost |-> parseFloatSafe(record.statCost),
   conversions |-> parseIntSafe(record.statConversions),
   record_id |-> RecordId(Or(normalizedDate, shortDate), campaignName, adsetName),
   cursor_timestamp |-> CursorTimestamp(normalizedDate, shortDate)]

\* The callback of filteredData.map: one upstream record to one output record.
Transform(record) ==
  OutputRecord(record, normalizeDate(record.ShortDate),
               Or(record.ShortDate, Str(<<>>)),
               Or(record.CampaignName, Str(S_Unknown)),
               Or(record.AdsetName, Str(S_Unknown)))

(***************************************************************************)
(* The handler                                                             *)
(***************************************************************************)
VARIABLES
  pc,        \* idle, awaitFetch (line 48), awaitText (lines 64, 70), done
  req,       \* the request: method, x-api-key header, query parameters
  envKey,    \* process.env.PROXY_API_KEY
  now,       \* the clock the request reads (lines 34, 88)
  rangeDays, \* the value interpolated into the upstream URL as rangedays
  fetches,   \* the number of upstream fetches issued
  upstream,  \* the upstream response: ok, and its body once read
  res,       \* the responses sent on res, in order
  fnPc,      \* for the pure functions: input or output
  fnIn,      \* the argument handed to normalizeDate or the transformer
  fnOut      \* its result

vars ==
  <<pc, req, envKey, now, rangeDays, fetches, upstream, res, fnPc, fnIn, fnOut>>

fnVars == <<fnPc, fnIn, fnOut>>

Thrown(message) == [thrown |-> TRUE, msg |-> message, value |-> Undef]

Returned(v) == [thrown |-> FALSE, msg |-> "", value |-> v]

\* Math.max and Math.min of two numbers: NaN when either is NaN.
MathMax(a, b) == IF isNaN(a) \/ isNaN(b) THEN NaN ELSE IF NumLt(a, b) THEN b ELSE a

MathMin(a, b) == IF isNaN(a) \/ isNaN(b) THEN NaN ELSE IF NumLt(a, b) THEN a ELSE b

\* The auth test left out: every request proceeds.
KeyIgnored(key, apiKey) == TRUE

\* The auth test of line 26 negated: the request may proceed.
KeyAccepted(key, apiKey) == ~(Truthy(key) /\ apiKey # key)

\* Lines 35-36: NaN when either date is invalid.
DiffDays(start, end) ==
  IF start.nan \/ end.nan THEN NaN ELSE IntNum(CeilDiffDays(end, start))

\* Line 37: Math.min(90, Math.max(1, diffDays + 1)).toString()
ClampDays(diffDays) ==
  Str(JSToString(MathMin(IntNum(90),
                         MathMax(IntNum(1),
                                 IF isNaN(diffDays) THEN NaN
                                 ELSE Num(diffDays.n + Scale)))))

\* Lines 33-39.  end.toISOString() in the log line throws a RangeError on an
\* Invalid Date.
RangeBetween(start, end) ==
  IF end.nan THEN Thrown("RangeError: Invalid time value")
  ELSE Returned(ClampDays(DiffDays(start, end)))

\* Lines 20 and 31-40: the rangedays to request.
ResolveRange(query, clock) ==
  IF Truthy(query.start_date)
  THEN RangeBetween(DateParse(query.start_date),
                    IF Truthy(query.end_date) THEN DateParse(query.end_date)
                    ELSE clock)
  ELSE Returned(Or(query.range_days, Str(<<"7">>)))

\* Lines 85-89: the window the filter compares against.
WindowStart(query) == StartOfDay(DateParse(query.start_date))

WindowEnd(query, clock) ==
  EndOfDay(IF Truthy(query.end_date) THEN DateParse(query.end_date) ELSE clock)

\* Lines 95-96: the date the filter gives a record.
RecordDate(parts) ==
  DateFromParts(Nth(parts, 3), MinusOne(Nth(parts, 1)), Nth(parts, 2))

\* Line 98.
Between(lo, t, hi) == TimeLeq(lo, t) /\ TimeLeq(t, hi)

\* Lines 92-98 for a record whose ShortDate is a string.
InWindow(record, lo, hi) ==
  /\ Truthy(record.ShortDate)
  /\ Between(lo, RecordDate(Split(record.ShortDate.s, "/")), hi)

\* A truthy ShortDate that is no string has no split method (line 95).
SplitThrows(record) == Truthy(record.ShortDate) /\ record.ShortDate.t # "str"

\* Lines 91-99: data.filter(...).
FilterBetween(data, lo, hi) ==
  IF \E i \in 1..Len(data) : SplitThrows(data[i])
  THEN Thrown("TypeError: record.ShortDate.split is not a function")
  ELSE LET Keep(record) == InWindow(record, lo, hi)
       IN Returned(SelectSeq(data, Keep))

\* Lines 83-102: the filtered data, or data itself when there is no start_date.
FilterWindow(data, query, clock) ==
  IF ~Truthy(query.start_date) THEN Returned(data)
  ELSE FilterBetween(data, WindowStart(query), WindowEnd(query, clock))

\* The sort key of lines 106-107.
SortKey(record) == DateParse(normalizeDate(record.ShortDate))

\* dateA - dateB > 0; a NaN difference counts as 0.
KeyAfter(ka, kb) == ~ka.nan /\ ~kb.nan /\ ~TimeLeq(ka, kb)

RECURSIVE InsertByKey(_, _, _)
\* x, with key kx, put behind the last element of sorted that is not after it.
InsertByKey(sorted, x, kx) ==
  IF sorted # <<>> /\ KeyAfter(SortKey(sorted[Len(sorted)]), kx)
  THEN Append(InsertByKey(Take(sorted, Len(sorted) - 1), x, kx), sorted[Len(sorted)])
  ELSE Append(sorted, x)

RECURSIVE StableSort(_)
StableSort(arr) ==
  IF arr = <<>> THEN <<>>
  ELSE InsertByKey(StableSort(Take(arr, Len(arr) - 1)), arr[Len(arr)],
                   SortKey(arr[Len(arr)]))

\* Whether the comparator orders the keys consistently: no NaN key, or no two
\* different keys among the others.
ConsistentKeys(keys) ==
  \/ \A i \in 1..Len(keys) : ~keys[i].nan
  \/ \A i, j \in 1..Len(keys) : keys[i].nan \/ keys[j].nan \/ keys[i] = keys[j]

\* Lines 105-109: Array.prototype.sort is stable under a consistent
\* comparator; under an inconsistent one the order is implementation-defined.
SortByDate(arr) ==
  IF ConsistentKeys([i \in 1..Len(arr) |-> SortKey(arr[i])]) THEN {StableSort(arr)}
  ELSE {[i \in 1..Len(arr) |-> arr[p[i]]] : p \in Permutations(1..Len(arr))}

\* The responses of the handler.
PreflightResponse ==
  [status |-> 200, kind |-> "end", details |-> "", records |-> <<>>,
   total_records |-> 0, range_days |-> Undef]

UnauthorizedResponse ==
  [status |-> 401, kind |-> "unauthorized", details |-> "", records |-> <<>>,
   total_records |-> 0, range_days |-> Undef]

\* Lines 178-185: the catch block.
ErrorResponse(message) ==
  [status |-> 500, kind |-> "error", details |-> message, records |-> <<>>,
   total_records |-> 0, range_days |-> Undef]

\* Lines 112-176.
SuccessResponse(data, sorted, days) ==
  [status |-> 200, kind |-> "success", details |-> "",
   records |-> [i \in 1..Len(sorted) |-> Transform(sorted[i])],
   total_records |-> Len(data), range_days |-> days]

\* Lines 104-176, or the catch block when the filter threw.
Answer(data, filtered, days) ==
  IF filtered.thrown THEN {ErrorResponse(filtered.msg)}
  ELSE {SuccessResponse(data, sorted, days) : sorted \in SortByDate(filtered.value)}

\* Lines 63-176, once the body text has arrived: the responses it may send.
Process(up, body, query, clock, days) ==
  IF ~up.ok THEN {ErrorResponse("CleanAds API returned")}
  ELSE IF ~body.json THEN {ErrorResponse("Failed to parse response as JSON")}
  ELSE IF ~body.array
  THEN {ErrorResponse("TypeError: data.filter or data.sort is not a function")}
  ELSE Answer(body.data, FilterWindow(body.data, query, clock), days)

(***************************************************************************)
(* The requests, clocks and upstream bodies the model draws from           *)
(***************************************************************************)
\* The longest array the upstream returns.
MaxRecords == 2

Methods == {"GET", "OPTIONS"}

EnvKeys == {Undef, Str(<<"k">>)}

ApiKeys == {Undef, Str(<<"k">>), Str(<<"x">>)}

RangeDaysParams == {Undef, Str(<<"3", "0">>)}

\* No start_date, a start 17 days and one 95 days before the clock, and a
\* string that is no date.
StartDates ==
  {Undef, Str(<<"2", "0", "2", "4", "-", "0", "1", "-", "0", "3">>), Str(<<"2", "0", "2", "3", "-", "1", "0", "-", "1", "7">>), Str(<<"s", "o", "o", "n">>)}

EndDates == {Undef, Str(<<"2", "0", "2", "4", "-", "0", "1", "-", "0", "5">>), Str(<<"l", "a", "t", "e", "r">>)}

\* 2024-01-20T12:00:00.000Z
Clocks == {TimeValue(MakeDay(2024, 0, 20), 12 * 60 * 60 * 1000)}

Requests ==
  [method : Methods, apiKey : ApiKeys, range_days : RangeDaysParams,
   start_date : StartDates, end_date : EndDates]

NoRequest ==
  [method |-> "", apiKey |-> Undef, range_days |-> Undef,
   start_date |-> Undef, end_date |-> Undef]

\* An upstream record with the given ShortDate and well-formed other fields.
RecordOn(shortDate) ==
  [ShortDate |-> shortDate, CampaignName |-> Str(<<"A">>),
   AdsetName |-> Str(<<"X">>), statImpressions |-> Str(<<"1", "0">>),
   statClicks |-> Str(<<"2">>), statCost |-> Str(<<"1", ".", "5">>),
   statConversions |-> Str(<<"1">>)]

\* Real dates inside and outside the windows, dates whose month or day is out
\* of range, components that are missing, empty or no number, a missing
\* ShortDate and one that is a number.
HandlerShortDates ==
  {Str(<<"0", "1", "/", "0", "2", "/", "2", "0", "2", "4">>), Str(<<"1", "/", "3", "/", "2", "0", "2", "4">>), Str(<<"0", "1", "/", "0", "5", "/", "2", "0", "2", "4">>),
   Str(<<"1", "2", "/", "0", "1", "/", "2", "0", "2", "3">>), Str(<<"1", "1", "/", "3", "1", "/", "2", "0", "2", "3">>), Str(<<"1", "3", "/", "4", "/", "2", "0", "2", "3">>),
   Str(<<"1", "/", "/", "2", "0", "2", "4">>), Str(<<"a", "b", "c", "/", "4", "/", "2", "0", "2", "4">>), Str(<<"1", "/", "4", "/", "2", "0", "2", "4", "/", "9">>),
   Str(<<"0", "1", "/", "0", "4">>), Undef, Num(202401040)}

\* A record on a real date whose statistics and names are malformed.
OddRecord ==
  [ShortDate |-> Str(<<"0", "1", "/", "0", "4", "/", "2", "0", "2", "4">>), CampaignName |-> Null, AdsetName |-> Obj,
   statImpressions |-> Obj, statClicks |-> Undef,
   statCost |-> Str(<<"a", "b", "c">>), statConversions |-> Bool(TRUE)]

HandlerRecords == {RecordOn(d) : d \in HandlerShortDates} \cup {OddRecord}

NoBody == [json |-> FALSE, array |-> FALSE, data |-> <<>>]

\* A JSON document that is no array, such as {"error": "..."}.
ObjectBody == [json |-> TRUE, array |-> FALSE, data |-> <<>>]

ArrayBody(records) == [json |-> TRUE, array |-> TRUE, data |-> records]

ArrayBodies ==
  {ArrayBody(a) : a \in UNION {[1..n -> HandlerRecords] : n \in 0..MaxRecords}}

\* What a 2xx response may carry; a non-2xx response carries an error text.
Bodies == {NoBody, ObjectBody} \cup ArrayBodies

(***************************************************************************)
(* The handler's steps: one per stretch of code between two awaits         *)
(***************************************************************************)
\* Lines 31-48: the range is resolved and the fetch issued, or the catch block
\* answers.
IssueFetch(range) ==
  IF range.thrown
  THEN /\ res' = Append(res, ErrorResponse(range.msg))
       /\ pc' = "done"
       /\ UNCHANGED <<rangeDays, fetches>>
  ELSE /\ rangeDays' = range.value
       /\ fetches' = fetches + 1
       /\ pc' = "awaitFetch"
       /\ UNCHANGED res

\* Lines 5-48: CORS headers, preflight, auth, range, the fetch is issued.
Invoke(request, key, clock) ==
  /\ pc = "idle"
  /\ req' = request
  /\ envKey' = key
  /\ now' = clock
  /\ IF request.method = "OPTIONS"
     THEN /\ res' = Append(res, PreflightResponse)
          /\ pc' = "done"
          /\ UNCHANGED <<rangeDays, fetches>>
     ELSE IF ~KeyAccepted(key, request.apiKey)
     THEN /\ res' = Append(res, UnauthorizedResponse)
          /\ pc' = "done"
          /\ UNCHANGED <<rangeDays, fetches>>
     ELSE IssueFetch(ResolveRange(request, clock))
  /\ UNCHANGED <<upstream, fnVars>>

\* Line 48: fetch rejects (a network error); the catch block answers.
FetchRejects ==
  /\ pc = "awaitFetch"
  /\ res' = Append(res, ErrorResponse("fetch failed"))
  /\ pc' = "done"
  /\ UNCHANGED <<req, envKey, now, rangeDays, fetches, upstream, fnVars>>

\* Lines 48-70: fetch resolves with a status; the body text is awaited.
FetchResolves(ok) ==
  /\ pc = "awaitFetch"
  /\ upstream' = [ok |-> ok, body |-> NoBody]
  /\ pc' = "awaitText"
  /\ UNCHANGED <<req, envKey, now, rangeDays, fetches, res, fnVars>>

\* Lines 64, 70: response.text() rejects; the catch block answers.
TextRejects ==
  /\ pc = "awaitText"
  /\ res' = Append(res, ErrorResponse("body read failed"))
  /\ pc' = "done"
  /\ UNCHANGED <<req, envKey, now, rangeDays, fetches, upstream, fnVars>>

\* Lines 63-185: the body text arrives; parse, filter, sort, transform, answer.
TextArrives(body) ==
  /\ pc = "awaitText"
  /\ upstream' = [upstream EXCEPT !.body = body]
  /\ \E response \in Process(upstream, body, req, now, rangeDays) :
       res' = Append(res, response)
  /\ pc' = "done"
  /\ UNCHANGED <<req, envKey, now, rangeDays, fetches, fnVars>>

\* No request has arrived.
HandlerIdle ==
  /\ pc = "idle"
  /\ req = NoRequest
  /\ envKey = Undef
  /\ now = TimeValue(0, 0)
  /\ rangeDays = Undef
  /\ fetches = 0
  /\ upstream = [ok |-> FALSE, body |-> NoBody]
  /\ res = <<>>

Init ==
  /\ HandlerIdle
  /\ fnPc = "unused"
  /\ fnIn = Undef
  /\ fnOut = Undef

Next ==
  \/ \E request \in Requests, key \in EnvKeys, clock \in Clocks :
       Invoke(request, key, clock)
  \/ FetchRejects
  \/ \E ok \in BOOLEAN : FetchResolves(ok)
  \/ TextRejects
  \/ \E body \in (IF upstream.ok THEN Bodies ELSE {NoBody}) : TextArrives(body)

Spec == Init /\ [][Next]_vars

(***************************************************************************)
(* normalizeDate and the transformer on their own                          *)
(***************************************************************************)
MonthTexts == {<<>>, <<"0">>, <<"3">>, <<"0", "3">>, <<"1", "2">>, <<"1", "3">>, <<"a", "b", "c">>, <<"7", "x">>}

DayTexts == {<<>>, <<"0">>, <<"4">>, <<"0", "4">>, <<"3", "1">>, <<"3", "2">>, <<"x", "y">>}

YearTexts == {<<>>, <<"2", "0", "2", "4">>, <<"2", "4">>}

Slash(a, b) == a \o <<"/">> \o b

\* Strings of three, two and four components, and values that are no string
\* or are empty.
NormalizeInputs ==
  {Str(Slash(m, Slash(d, y))) : m \in MonthTexts, d \in DayTexts, y \in YearTexts}
    \cup {Str(Slash(m, d)) : m \in MonthTexts, d \in DayTexts}
    \cup {Str(Slash(Slash(m, Slash(d, y)), <<"9">>)) :
            m \in MonthTexts, d \in {<<"0", "4">>}, y \in YearTexts}
    \cup {Undef, Null, Str(<<>>), Num(0), Num(202401040), Bool(TRUE), Obj}

\* Upstream records with every field present, missing or malformed.
TransformInputs ==
  [ShortDate : {Undef, Str(<<>>), Num(202401040)} \cup {Str(<<"1", "/", "2", "/", "2", "0", "2", "4">>), Str(<<"1", "3", "/", "1", "/", "2", "0", "2", "4">>), Str(<<"n", "/", "a">>)},
   CampaignName : {Undef, Null, Obj} \cup {Str(<<>>), Str(<<"A">>), Str(<<"Q", "1", " ", "(", "a", "/", "b", ")">>)},
   AdsetName : {Undef} \cup {Str(<<"X">>), Str(<<"x", " ", "y", "-", "z", "_", "9">>)},
   statImpressions : {Undef, Null, Obj, Num(129), Bool(TRUE)} \cup {Str(<<"1", "0">>), Str(<<"1", "2", ".", "9">>), Str(<<"a", "b", "c">>), Str(<<>>), Str(<<"-", "3">>), Str(<<" ", "4", "2">>)},
   statClicks : {Undef, Str(<<"2">>)},
   statCost : {Undef, Null, Num(15)} \cup {Str(<<"a", "b", "c">>), Str(<<"1", ".", "5">>), Str(<<"I", "n", "f", "i", "n", "i", "t", "y">>), Str(<<".", "5">>), Str(<<"-", "2", ".", "5", "x">>)},
   statConversions : {Obj, Str(<<"1">>)}]

\* normalizeDate(fnIn)
CallNormalizeDate ==
  /\ fnPc = "input"
  /\ fnOut' = normalizeDate(fnIn)
  /\ fnPc' = "output"
  /\ UNCHANGED <<pc, req, envKey, now, rangeDays, fetches, upstream, res, fnIn>>

\* The map callback applied to fnIn.
CallTransform ==
  /\ fnPc = "input"
  /\ fnOut' = Transform(fnIn)
  /\ fnPc' = "output"
  /\ UNCHANGED <<pc, req, envKey, now, rangeDays, fetches, upstream, res, fnIn>>

InitNormalize == HandlerIdle /\ fnPc = "input" /\ fnIn \in NormalizeInputs /\ fnOut = Undef

InitTransform == HandlerIdle /\ fnPc = "input" /\ fnIn \in TransformInputs /\ fnOut = Undef

SpecNormalize == InitNormalize /\ [][CallNormalizeDate]_vars

SpecTransform == InitTransform /\ [][CallTransform]_vars

(***************************************************************************)
(* Properties                                                              *)
(***************************************************************************)
\* A non-empty string of decimal digits whose value lies in lo..hi.
IsDecimalIn(s, lo, hi) ==
  /\ s # <<>>
  /\ \A i \in 1..Len(s) : s[i] \in DigitChars
  /\ DecVal(s) >= lo /\ DecVal(s) <= hi

\* The inputs the contract of normalizeDate accepts: exactly three present
\* components, the month a number in 1..12, the day a number in 1..31.
ContractAccepts(v) ==
  /\ v.t = "str"
  /\ Len(Split(v.s, "/")) = 3
  /\ IsDecimalIn(Split(v.s, "/")[1], 1, 12)
  /\ IsDecimalIn(Split(v.s, "/")[2], 1, 31)
  /\ Split(v.s, "/")[3] # <<>>

\* YYYY-MM-DD of an accepted input, month and day padded to two digits.
ContractResult(v) ==
  Str(Split(v.s, "/")[3] \o <<"-">>
        \o (IF Len(Split(v.s, "/")[1]) < 2 THEN <<"0">> ELSE <<>>) \o Split(v.s, "/")[1]
        \o <<"-">>
        \o (IF Len(Split(v.s, "/")[2]) < 2 THEN <<"0">> ELSE <<>>) \o Split(v.s, "/")[2])

\* C4: normalizeDate returns YYYY-MM-DD, zero-padded, exactly for the inputs
\* that split into three present components with month in 1..12 and day in
\* 1..31, and null for every other input.
C4_NormalizeDateContract ==
  fnPc = "output" =>
    fnOut = (IF ContractAccepts(fnIn) THEN ContractResult(fnIn) ELSE Null)

\* C6: the transformer's output has every field defined, ShortDate defaults
\* to '' and CampaignName / AdsetName to 'Unknown', and each of the eight
\* numeric fields is a number that is never NaN: input without a readable
\* number becomes 0, integer fields are truncated, cost keeps its fraction.
IntegerFields ==
  {"statImpressions", "statClicks", "statConversions",
   "impressions", "clicks", "conversions"}

CostFields == {"statCost", "cost"}

\* The upstream field an output field is read from.
SourceField(f) ==
  CASE f \in {"statImpressions", "impressions"} -> "statImpressions"
    [] f \in {"statClicks", "clicks"} -> "statClicks"
    [] f \in {"statConversions", "conversions"} -> "statConversions"
    [] OTHER -> "statCost"

Unsigned(text) ==
  IF text # <<>> /\ text[1] \in {"+", "-"} THEN Drop(text, 1) ELSE text

\* The text starts, after blanks and a sign, with an integer numeral.
StartsWithInteger(text) == Unsigned(text) # <<>> /\ Unsigned(text)[1] \in DigitChars

\* The text starts, after blanks and a sign, with a decimal numeral or Infinity.
StartsWithDecimal(text) ==
  \/ StartsWithInteger(text)
  \/ StartsWith(Unsigned(text), S_Infinity)
  \/ Len(Unsigned(text)) >= 2 /\ Unsigned(text)[1] = "." /\ Unsigned(text)[2] \in DigitChars

Missing(v) == v.t \in {"undef", "null"}

C6_TransformerTotal ==
  fnPc = "output" =>
    /\ \A f \in DOMAIN fnOut : fnOut[f].t # "undef"
    /\ Missing(fnIn.ShortDate) => fnOut.ShortDate = Str(<<>>)
    /\ Missing(fnIn.CampaignName) => fnOut.CampaignName = Str(S_Unknown)
    /\ Missing(fnIn.AdsetName) => fnOut.AdsetName = Str(S_Unknown)
    /\ \A f \in IntegerFields :
         /\ fnOut[f].t = "num"
         /\ fnOut[f].n % Scale = 0
         /\ ~StartsWithInteger(TrimLeft(JSToString(fnIn[SourceField(f)]))) => fnOut[f].n = 0
    /\ \A f \in CostFields :
         /\ fnOut[f].t \in {"num", "inf"}
         /\ ~StartsWithDecimal(TrimLeft(JSToString(fnIn[SourceField(f)]))) => fnOut[f] = Num(0)
    /\ fnIn.statImpressions = Str(<<"1", "2", ".", "9">>) =>
         fnOut.impressions = IntNum(12) /\ fnOut.statImpressions = IntNum(12)
    /\ fnIn.statCost = Str(<<"1", ".", "5">>) => fnOut.cost = Num(15) /\ fnOut.statCost = Num(15)

\* A record with no ShortDate and no names, statImpressions '12.9' and
\* statCost 'abc', has been transformed.
C6_Witness ==
  /\ fnPc = "output"
  /\ fnIn.ShortDate = Undef /\ fnIn.CampaignName = Undef /\ fnIn.AdsetName = Undef
  /\ fnIn.statImpressions = Str(<<"1", "2", ".", "9">>) /\ fnIn.statCost = Str(<<"a", "b", "c">>)
  /\ fnOut.impressions = IntNum(12) /\ fnOut.cost = Num(0)
  /\ fnOut.CampaignName = Str(S_Unknown)

\* The key of line 165 before the replacement, from the emitted fields.
RecordKey(out) ==
  JSToString(IF Truthy(out.normalized_date) THEN out.normalized_date ELSE out.ShortDate)
    \o <<"_">> \o JSToString(out.CampaignName) \o <<"_">> \o JSToString(out.AdsetName)

\* C7: record_id is (normalized_date or ShortDate)_CampaignName_AdsetName
\* with every character outside [A-Za-z0-9_-] replaced by '_', so it holds
\* only characters of [A-Za-z0-9_-]; ShortDate '1/2/2024', campaign 'A',
\* ad set 'X' give '2024-01-02_A_X'.
C7_RecordId ==
  fnPc = "output" =>
    /\ fnOut.record_id.t = "str"
    /\ \A i \in 1..Len(fnOut.record_id.s) : fnOut.record_id.s[i] \in IdChars
    /\ Len(fnOut.record_id.s) = Len(RecordKey(fnOut))
    /\ \A i \in 1..Len(RecordKey(fnOut)) :
         fnOut.record_id.s[i] =
           (IF RecordKey(fnOut)[i] \in IdChars THEN RecordKey(fnOut)[i] ELSE "_")
    /\ (/\ fnIn.ShortDate = Str(<<"1", "/", "2", "/", "2", "0", "2", "4">>)
        /\ fnIn.CampaignName = Str(<<"A">>)
        /\ fnIn.AdsetName = Str(<<"X">>))
         => fnOut.record_id = Str(<<"2", "0", "2", "4", "-", "0", "1", "-", "0", "2", "_", "A", "_", "X">>)

\* A record whose campaign name holds several characters to replace has been
\* transformed.
C7_Witness ==
  /\ fnPc = "output"
  /\ fnIn.ShortDate = Str(<<"1", "/", "2", "/", "2", "0", "2", "4">>)
  /\ fnIn.CampaignName = Str(<<"Q", "1", " ", "(", "a", "/", "b", ")">>)
  /\ fnIn.AdsetName = Str(<<"x", " ", "y", "-", "z", "_", "9">>)
  /\ fnOut.record_id = Str(<<"2", "0", "2", "4", "-", "0", "1", "-", "0", "2", "_", "Q", "1", "_", "_", "a", "_", "b", "_", "_", "x", "_", "y", "-", "z", "_", "9">>)

\* The handler has answered with a success body.
Succeeded == pc = "done" /\ res # <<>> /\ res[1].kind = "success"

\* start_date is supplied and it and the end of the window are dates.
WindowGiven ==
  /\ Truthy(req.start_date)
  /\ ~DateParse(req.start_date).nan
  /\ Truthy(req.end_date) => ~DateParse(req.end_date).nan

\* The first and the last calendar day of the window, in days since 1970.
FirstDay == DateParse(req.start_date).d

LastDay == IF Truthy(req.end_date) THEN DateParse(req.end_date).d ELSE now.d

IsNumeral(s) == s # <<>> /\ \A i \in 1..Len(s) : s[i] \in DigitChars

\* What the filter is to retain: a non-empty ShortDate of three numeric
\* components whose calendar date lies on a day of the window.
RetainedByContract(record) ==
  /\ record.ShortDate.t = "str"
  /\ Len(Split(record.ShortDate.s, "/")) = 3
  /\ \A i \in 1..3 : IsNumeral(Split(record.ShortDate.s, "/")[i])
  /\ MakeDay(DecVal(Split(record.ShortDate.s, "/")[3]),
             DecVal(Split(record.ShortDate.s, "/")[1]) - 1,
             DecVal(Split(record.ShortDate.s, "/")[2])) \in FirstDay..LastDay

ShortDatesOf(records) == [i \in 1..Len(records) |-> records[i].ShortDate]

Occurrences(seq, v) == Cardinality({i \in 1..Len(seq) : seq[i] = v})

\* The same elements the same number of times, in any order.
SameElements(a, b) ==
  /\ Len(a) = Len(b)
  /\ \A i \in 1..Len(a) : Occurrences(a, a[i]) = Occurrences(b, a[i])

\* C1: with a start_date the response holds exactly the records that have a
\* non-empty ShortDate of three numeric components whose calendar date lies
\* in the window; without a start_date it holds every record.
C1_WindowFilter ==
  Succeeded =>
    IF Truthy(req.start_date)
    THEN WindowGiven =>
           SameElements(ShortDatesOf(res[1].records),
                        ShortDatesOf(SelectSeq(upstream.body.data, RetainedByContract)))
    ELSE Len(res[1].records) = Len(upstream.body.data)

\* C2: the rangedays sent upstream reaches back at least to the first day of
\* the local window: no day the filter accepts lies before the last
\* rangedays days.
C2_UpstreamCoversWindow ==
  (fetches = 1 /\ WindowGiven /\ FirstDay <= LastDay /\ IsNumeral(rangeDays.s))
    => now.d - DecVal(rangeDays.s) <= FirstDay

\* ceil(|end - start| in days) for a start at midnight that is not after end.
WholeDays(start, end) == (end.d - start.d) + (IF end.ms > start.ms THEN 1 ELSE 0)

\* C3: without start_date rangedays is range_days (default '7') unchanged;
\* with start_date it is ceil(|end - start| in days) + 1 clamped to 1..90,
\* always an integer in 1..90.
C3_RangeResolver ==
  fetches = 1 =>
    IF ~Truthy(req.start_date)
    THEN rangeDays = (IF Truthy(req.range_days) THEN req.range_days ELSE Str(<<"7">>))
    ELSE /\ rangeDays.t = "str"
         /\ IsNumeral(rangeDays.s)
         /\ DecVal(rangeDays.s) \in 1..90
         /\ WindowGiven =>
              DecVal(rangeDays.s) =
                (IF WholeDays(DateParse(req.start_date),
                              IF Truthy(req.end_date) THEN DateParse(req.end_date) ELSE now) + 1 > 90
                 THEN 90
                 ELSE WholeDays(DateParse(req.start_date),
                                IF Truthy(req.end_date) THEN DateParse(req.end_date) ELSE now) + 1)

\* s < t on strings: the first differing code unit decides, a prefix is less.
StrLess(s, t) ==
  \E i \in 1..(Len(t)) :
    /\ \A k \in 1..(i - 1) : k <= Len(s) /\ s[k] = t[k]
    /\ (i > Len(s) \/ CharCode(s[i]) < CharCode(t[i]))

StrLeq(s, t) == s = t \/ StrLess(s, t)

\* C5: when normalizeDate accepts the ShortDate of every upstream record, the
\* records of the response are in non-decreasing order of normalized_date.
C5_SortedByNormalizedDate ==
  (Succeeded /\ \A i \in 1..Len(upstream.body.data) :
                   normalizeDate(upstream.body.data[i].ShortDate) # Null)
    => \A i, j \in 1..Len(res[1].records) :
         i < j => StrLeq(res[1].records[i].normalized_date.s,
                         res[1].records[j].normalized_date.s)

\* C8: whatever the records of an upstream JSON array hold, the handler
\* answers 200 with success: true.
C8_RecordNeverAborts ==
  (pc = "done" /\ upstream.ok /\ upstream.body.array)
    => res[1].status = 200 /\ res[1].kind = "success"

\* C9: an invocation ends with exactly one response; OPTIONS and a key
\* mismatch are answered 200 / 401 without a fetch; a non-2xx status or a
\* non-JSON body yields a 500 error; success is sent only after a 2xx
\* response whose body parsed as JSON.
C9_OneResponse ==
  /\ Len(res) = (IF pc = "done" THEN 1 ELSE 0)
  /\ pc = "done" =>
       /\ req.method = "OPTIONS" => res[1] = PreflightResponse /\ fetches = 0
       /\ (req.method # "OPTIONS" /\ Truthy(envKey) /\ req.apiKey # envKey)
            => res[1] = UnauthorizedResponse /\ fetches = 0
       /\ (fetches = 1 /\ (~upstream.ok \/ ~upstream.body.json))
            => res[1].status = 500 /\ res[1].kind = "error"
       /\ res[1].kind = "success"
            => /\ res[1].status = 200
               /\ fetches = 1
               /\ upstream.ok
               /\ upstream.body.json

\* With a key configured, a request carrying it was answered with records
\* and one carrying another key would have been refused.
C9_Witness ==
  /\ Succeeded
  /\ Truthy(envKey)
  /\ req.apiKey = envKey
  /\ Len(res[1].records) = 2
  /\ fetches = 1

\* C10: with a start_date every record of the response has a normalized_date,
\* and the date it denotes is the date the filter compared, inside the window.
C10_FilterAgreesWithNormalizeDate ==
  (Succeeded /\ Truthy(req.start_date))
    => \A i \in 1..Len(res[1].records) :
         /\ res[1].records[i].normalized_date # Null
         /\ DateParse(res[1].records[i].normalized_date)
              = RecordDate(Split(res[1].records[i].ShortDate.s, "/"))
         /\ WindowGiven =>
              DateParse(res[1].records[i].normalized_date).d \in FirstDay..LastDay

====
